---- MODULE Spec2Model ----
(***************************************************************************)
(* Model of the quantum-tunnelling integrator (numerics.py), of the worker *)
(* thread that drives it (workers.py) and of the GUI calls that create and *)
(* stop that worker (gui.py).                                              *)
(*                                                                         *)
(* Arithmetic.  The program computes in IEEE doubles and complex doubles.  *)
(*  - Lengths are held in picometres and times in attoseconds, the least   *)
(*    units the unit conversions of __init__ reach, so that every converted*)
(*    parameter is an integer; the quotients that give the grid sizes are  *)
(*    taken exactly and truncated as int() truncates.                      *)
(*  - Complex amplitudes (packet, rhs_eq, A, B, b, r, q) are carried in    *)
(*    the prime field Z_P, which has a square root of -1 to stand for 1j.  *)
(*    Real quantities enter the field by reduction modulo P.               *)
(*  - The Gaussian samples of _gauss have no image in Z_P and are left     *)
(*    free: any amplitude of 0 .. MaxGauss at each grid point.              *)
(*  - int(i / t_steps * 100) of _emit_progress is computed in binary64,    *)
(*    bit by bit: a correctly rounded division, a correctly rounded        *)
(*    product and a truncation.                                            *)
(***************************************************************************)
EXTENDS Integers, Sequences, FiniteSets, TLC

VARIABLES
    args,       \* arguments of the latest NumericalCalculation(...) call
    outcome,    \* how that call ended: "none", "ok" or the exception raised
    calc,       \* the NumericalCalculation instance it returned, or NoCalc
    arrays,     \* the heap of mutable complex arrays: array id -> contents
    probe,      \* instrumentation: calls of splu and of lu.solve on calc
    built,      \* calc and its packet contents as __init__ left them
    held,       \* arrays a caller of get_packet still holds
    worker,     \* the SimulationWorker thread object, or NoWorker
    frames,     \* what plot_wave_packet has rendered for that worker
    signals,    \* the Qt signals that worker has emitted
    gui         \* the GUI thread: where it is in toggle_simulation

vars == <<args, outcome, calc, arrays, probe, built, held, worker, frames,
          signals, gui>>

-----------------------------------------------------------------------------
(* Bounds of the model.                                                    *)

\* Gaussian samples are drawn from 0..MaxGauss.
MaxGauss == 1
\* A caller of the integrator makes at most MaxCalls calculate_timestep calls.
MaxCalls == 4
\* Simulations started from the GUI in one behaviour.
MaxStarts == 2

-----------------------------------------------------------------------------
(* Scalars: unit scales, physical constants, the carrier of amplitudes.    *)

\* 1e-9 m, in picometres.
NM == 1000
\* 1e-12 m, in picometres.
PM == 1
\* 1e-15 s, in attoseconds.
FS == 1000
\* 1e-18 s, in attoseconds.
AS == 1
\* scipy.constants e, hbar, m_e in the model's units.
e == 1
hbar == 2
m_e == 1

\* Modulus of the field that carries complex128 values.
P == 37
Amp == 0 .. (P - 1)
\* 1j: a square root of -1.
J == CHOOSE z \in Amp : (z * z + 1) % P = 0

Emb(n) == n % P
Add(a, b) == (a + b) % P
Sub(a, b) == (a - b) % P
Mul(a, b) == (a * b) % P
Neg(a) == (0 - a) % P
Inv(a) == CHOOSE y \in Amp : (a * y) % P = 1
Div(a, b) == Mul(a, Inv(b))

\* Variant of IntDiv: one more than the quotient, as for a count of fence
\* posts.
IntDiv_plus_one(a, b) ==
    LET abs(v) == IF v < 0 THEN 0 - v ELSE v
        m == abs(a) \div abs(b)
    IN  (IF (a < 0) = (b < 0) THEN m ELSE 0 - m) + 1

\* int(a / b) of two floats with integer values: truncation toward zero.
IntDiv(a, b) ==
    LET abs(v) == IF v < 0 THEN 0 - v ELSE v
        m == abs(a) \div abs(b)
    IN  IF (a < 0) = (b < 0) THEN m ELSE 0 - m

\* np.linspace(start, stop, num) for num >= 0, each point an exact fraction
\* <<numerator, denominator>>.
linspace(start, stop, num) ==
    [i \in 1 .. num |->
        IF num = 1 THEN <<start, 1>>
        ELSE <<start * (num - 1) + (i - 1) * (stop - start), num - 1>>]

\* a[1:-1] of a one-dimensional array.
Interior(a) == IF Len(a) < 2 THEN <<>> ELSE SubSeq(a, 2, Len(a) - 1)

NoCalc == <<>>
NoWorker == <<>>

-----------------------------------------------------------------------------
(* Sparse tridiagonal matrices, their LU factorization and its solve.      *)

\* csc_matrix / csr_matrix of a tridiagonal array: the three diagonals.
Dim(M) == Len(M.main)

\* M @ v
MatVec(M, v) ==
    [j \in 1 .. Dim(M) |->
        Add(Add(IF j > 1 THEN Mul(M.lower[j - 1], v[j - 1]) ELSE 0,
                Mul(M.main[j], v[j])),
            IF j < Dim(M) THEN Mul(M.upper[j], v[j + 1]) ELSE 0)]

\* Pivots u[1..j] of the elimination of M without row exchanges.  The
\* elimination stops at a zero pivot: the sequence is then shorter than j.
RECURSIVE Pivots(_, _)
Pivots(M, j) ==
    IF j = 0 THEN <<>>
    ELSE LET prev == Pivots(M, j - 1)
         IN  IF j = 1 THEN <<M.main[1]>>
             ELSE IF Len(prev) < j - 1 \/ prev[j - 1] = 0 THEN prev
             ELSE Append(prev,
                         Sub(M.main[j],
                             Mul(Div(M.lower[j - 1], prev[j - 1]),
                                 M.upper[j - 1])))

\* splu(M): the factors of M = L U, L unit lower bidiagonal with multipliers
\* l, U upper bidiagonal with diagonal u and superdiagonal c; singular where
\* SuperLU raises RuntimeError ("Factor is exactly singular").
splu(M) ==
    LET u == Pivots(M, Dim(M))
    IN  IF Len(u) < Dim(M) \/ (\E j \in 1 .. Len(u) : u[j] = 0)
        THEN [singular |-> TRUE]
        ELSE [singular |-> FALSE,
              l |-> [j \in 1 .. Dim(M) - 1 |-> Div(M.lower[j], u[j])],
              u |-> u,
              c |-> M.upper]

\* Forward substitution L y = rhs, y[1..j].
RECURSIVE Forward(_, _, _)
Forward(lu, rhs, j) ==
    IF j = 0 THEN <<>>
    ELSE LET y == Forward(lu, rhs, j - 1)
         IN  Append(y, IF j = 1 THEN rhs[1]
                       ELSE Sub(rhs[j], Mul(lu.l[j - 1], y[j - 1])))

\* Back substitution U x = y, x[j..n] as a sequence.
RECURSIVE Backward(_, _, _)
Backward(lu, y, j) ==
    LET n == Len(lu.u)
    IN  IF j > n THEN <<>>
        ELSE LET rest == Backward(lu, y, j + 1)
             IN  <<Div(IF j = n THEN y[j]
                       ELSE Sub(y[j], Mul(lu.c[j], rest[1])),
                       lu.u[j])>> \o rest

\* lu.solve(rhs)
solve(lu, rhs) == Backward(lu, Forward(lu, rhs, Len(lu.u)), 1)

-----------------------------------------------------------------------------
(* NumericalCalculation (numerics.py).                                     *)

Raise(exc) == [raised |-> exc]

\* _gauss(x) at grid point j.  exp() has no image in the field: the sample is
\* the free value g[j].
_gauss(g, j) == g[j]

\* _get_numerical_parameters(): A, B, b and the factorization of A, from the
\* fields division_x, dt, dx and V of self.
_get_numerical_parameters(self) ==
    LET n == self.division_x - 2
        r == Div(Mul(Div(Mul(J, Emb(self.dt)), Mul(Emb(self.dx), Emb(self.dx))),
                     Emb(hbar)),
                 Mul(4, Emb(m_e)))
        Vin == Interior(self.V)
        q == [j \in 1 .. n |->
                Sub(Add(Mul(Div(Mul(Neg(J), Emb(self.dt)), Emb(hbar)), Emb(Vin[j])),
                        1),
                    Mul(2, r))]
        A == [main  |-> [j \in 1 .. n |-> Add(1, Mul(2, r))],
              upper |-> [j \in 1 .. n - 1 |-> Neg(r)],
              lower |-> [j \in 1 .. n - 1 |-> Neg(r)]]
        B == [main  |-> q,
              upper |-> [j \in 1 .. n - 1 |-> r],
              lower |-> [j \in 1 .. n - 1 |-> r]]
        b == [j \in 1 .. n |-> 0]
        lu == splu(A)
    IN  IF n < 0 THEN Raise("ValueError")             \* np.zeros((n, n))
        ELSE IF n = 0 THEN Raise("IndexError")        \* self.b[0] = 0
        ELSE IF lu.singular THEN Raise("RuntimeError")   \* splu(self.A)
        ELSE [raised |-> "none", A |-> A, B |-> B, b |-> b, lu |-> lu,
              n_splu |-> 1]

\* self.B @ self.packet[1:-1] + self.b
RhsOf(B, b, packet) ==
    LET Bp == MatVec(B, Interior(packet))
    IN  [j \in 1 .. Len(b) |-> Add(Bp[j], b[j])]

\* NumericalCalculation.__init__ with arguments p and Gaussian samples g.
\* The result is the exception raised, or the instance (its packet field is
\* given as the array's contents; the caller of this operator places it on
\* the heap).
NumericalCalculation_init(p, g) ==
    LET size_packet == p.size_packet * NM
        size_barrier == p.size_barrier * NM
        time_duration == p.duration_time * FS
        energy_packet == p.energy_packet * e
        potential_barrier_height == p.potential_barrier_height * e
        dx == p.dx * PM
        dt == p.dt * AS
        sigma == 6 * size_packet
        x_packet == 2 * sigma
        x_barrier == x_packet + sigma
        x_min == 0
        x_max == x_barrier + 4 * sigma
        division_x == IntDiv(x_max - x_min, dx)
        x == linspace(x_min, x_max, division_x)
        division_time == IntDiv(time_duration, dt)
        t == linspace(0, time_duration, division_time)
        V == [j \in 1 .. division_x |->
                IF /\ x_barrier * x[j][2] <= x[j][1]
                   /\ x[j][1] <= (x_barrier + size_barrier) * x[j][2]
                THEN potential_barrier_height
                ELSE 0]
        k == [sqrt_of |-> 2 * m_e * energy_packet, over |-> hbar]
        dk == [two_pi_over |-> x_max - x_min]
        K == linspace(-1, 1, division_x)
        np == _get_numerical_parameters(
                  [division_x |-> division_x, dt |-> dt, dx |-> dx, V |-> V])
        packet == [j \in 1 .. division_x |-> _gauss(g, j)]
    IN  IF dx = 0 THEN Raise("ZeroDivisionError")              \* line 40
        ELSE IF division_x < 0 THEN Raise("ValueError")        \* line 41
        ELSE IF dt = 0 THEN Raise("ZeroDivisionError")         \* line 45
        ELSE IF division_time < 0 THEN Raise("ValueError")     \* line 46
        ELSE IF x_max - x_min = 0 THEN Raise("ZeroDivisionError")  \* line 58
        ELSE IF np.raised # "none" THEN np                     \* line 62
        ELSE [raised |-> "none",
              self |-> [size_packet |-> size_packet,
                        size_barrier |-> size_barrier,
                        time_duration |-> time_duration,
                        energy_packet |-> energy_packet,
                        potential_barrier_height |-> potential_barrier_height,
                        dx |-> dx, dt |-> dt,
                        x_packet |-> x_packet, x_barrier |-> x_barrier,
                        x_min |-> x_min, x_max |-> x_max,
                        division_x |-> division_x, x |-> x,
                        division_time |-> division_time, t |-> t,
                        V |-> V, k |-> k, dk |-> dk, K |-> K,
                        A |-> np.A, B |-> np.B, b |-> np.b, lu |-> np.lu,
                        rhs_eq |-> RhsOf(np.B, np.b, packet)],
              packet |-> packet,
              n_splu |-> np.n_splu]

\* The Gaussian samples a construction with arguments p may draw: one per
\* grid point when the grid can be built.
GaussSamples(p) ==
    LET n == IF p.dx = 0 THEN 0
             ELSE IntDiv((7 * 6 * p.size_packet * NM), p.dx * PM)
    IN  [1 .. n -> 0 .. MaxGauss]

\* Variants of calculate_timestep with one plausible slip each.
\* The step factorizes A again.
calculate_timestep_refactor(self, heap) ==
    LET lu == splu(self.A)
        x == solve(lu, self.rhs_eq)
        old == heap[self.packet]
        N == Len(old)
        new == [j \in 1 .. N |-> IF 1 < j /\ j < N THEN x[j - 1] ELSE old[j]]
    IN  [raised |-> "none",
         self   |-> [self EXCEPT !.lu = lu, !.rhs_eq = RhsOf(self.B, self.b, new)],
         heap   |-> [heap EXCEPT ![self.packet] = new],
         n_splu |-> 1,
         n_solve |-> 1]

\* The right-hand side is stored in b instead of rhs_eq.
calculate_timestep_into_b(self, heap) ==
    LET x == solve(self.lu, self.rhs_eq)
        old == heap[self.packet]
        N == Len(old)
        new == [j \in 1 .. N |-> IF 1 < j /\ j < N THEN x[j - 1] ELSE old[j]]
    IN  [raised |-> "none",
         self   |-> [self EXCEPT !.b = RhsOf(self.B, self.b, new)],
         heap   |-> [heap EXCEPT ![self.packet] = new],
         n_splu |-> 0,
         n_solve |-> 1]

\* The solution is written to packet[:-2] instead of packet[1:-1].
calculate_timestep_shifted(self, heap) ==
    LET x == solve(self.lu, self.rhs_eq)
        old == heap[self.packet]
        N == Len(old)
        new == [j \in 1 .. N |-> IF j < N - 1 THEN x[j] ELSE old[j]]
    IN  [raised |-> "none",
         self   |-> [self EXCEPT !.rhs_eq = RhsOf(self.B, self.b, new)],
         heap   |-> [heap EXCEPT ![self.packet] = new],
         n_splu |-> 0,
         n_solve |-> 1]

\* The step solves twice.
calculate_timestep_twice(self, heap) ==
    LET x1 == solve(self.lu, self.rhs_eq)
        old == heap[self.packet]
        N == Len(old)
        mid == [j \in 1 .. N |-> IF 1 < j /\ j < N THEN x1[j - 1] ELSE old[j]]
        x == solve(self.lu, RhsOf(self.B, self.b, mid))
        new == [j \in 1 .. N |-> IF 1 < j /\ j < N THEN x[j - 1] ELSE old[j]]
    IN  [raised |-> "none",
         self   |-> [self EXCEPT !.rhs_eq = RhsOf(self.B, self.b, new)],
         heap   |-> [heap EXCEPT ![self.packet] = new],
         n_splu |-> 0,
         n_solve |-> 2]

\* The right-hand side is computed before the packet is updated.
calculate_timestep_stale(self, heap) ==
    LET x == solve(self.lu, self.rhs_eq)
        old == heap[self.packet]
        N == Len(old)
        new == [j \in 1 .. N |-> IF 1 < j /\ j < N THEN x[j - 1] ELSE old[j]]
    IN  [raised |-> "none",
         self   |-> [self EXCEPT !.rhs_eq = RhsOf(self.B, self.b, old)],
         heap   |-> [heap EXCEPT ![self.packet] = new],
         n_splu |-> 0,
         n_solve |-> 1]

\* calculate_timestep() on instance self, whose packet array lives on heap.
\* n_splu and n_solve count the factorizations and solves the call makes.
calculate_timestep(self, heap) ==
    LET x == solve(self.lu, self.rhs_eq)
        old == heap[self.packet]
        N == Len(old)
        new == [j \in 1 .. N |-> IF 1 < j /\ j < N THEN x[j - 1] ELSE old[j]]
    IN  IF Len(self.rhs_eq) # Len(self.lu.u)
        THEN Raise("ValueError")          \* lu.solve: rhs of the wrong length
        ELSE IF Len(x) # Len(Interior(old))
        THEN Raise("ValueError")          \* packet[1:-1] = ...: cannot broadcast
        ELSE [raised |-> "none",
              self   |-> [self EXCEPT !.rhs_eq = RhsOf(self.B, self.b, new)],
              heap   |-> [heap EXCEPT ![self.packet] = new],
              n_splu |-> 0,
              n_solve |-> 1]

\* A fresh array on the heap holding contents.
Alloc(heap, contents) ==
    LET id == CHOOSE i \in 1 .. (Cardinality(DOMAIN heap) + 1) : i \notin DOMAIN heap
    IN  [heap |-> [i \in DOMAIN heap \cup {id} |->
                      IF i = id THEN contents ELSE heap[i]],
         ref  |-> id]

\* Variant of get_packet: the array itself, no copy.
get_packet_alias(self, heap) == [heap |-> heap, ref |-> self.packet]

\* get_packet(): self.packet.copy(), a new array.
get_packet(self, heap) == Alloc(heap, heap[self.packet])

\* The array get_packet returns now.
CurrentState == get_packet(calc, arrays).heap[get_packet(calc, arrays).ref]

-----------------------------------------------------------------------------
(* Initial state: nothing constructed, no worker, GUI idle.                *)

\* probe.twin is the state (packet contents, rhs_eq) of an identical instance
\* stepped alongside calc that hands no array to anybody.
NoProbe == [n_splu |-> 0, n_solve |-> 0, n_calls |-> 0, raised |-> "none",
            twin |-> <<>>]
NoArray == <<>>
\* stop() has not been called on the current worker.
NoStop == <<>>
NoSignals == [progress |-> <<>>, finished |-> 0, interrupted |-> 0]

Init ==
    /\ args = <<>>
    /\ outcome = "none"
    /\ calc = NoCalc
    /\ arrays = <<>>
    /\ probe = NoProbe
    /\ built = NoCalc
    /\ held = NoArray
    /\ worker = NoWorker
    /\ frames = <<>>
    /\ signals = NoSignals
    /\ gui = [pc |-> "idle", raised |-> "none", starts |-> 0, instances |-> 0,
              orphans |-> <<>>, stopped |-> NoStop]

\* The call NumericalCalculation(**p) by a caller that keeps the result in
\* calc: on an exception no instance exists.
Construct(p, g) ==
    \E res \in {NumericalCalculation_init(p, g)} :
      IF res.raised = "none"
      THEN \E heap \in {Alloc(<<>>, res.packet)} :
           \E self \in {[f \in DOMAIN res.self \cup {"packet"} |->
                            IF f = "packet" THEN heap.ref ELSE res.self[f]]} :
             /\ args' = p
             /\ outcome' = "ok"
             /\ calc' = self
             /\ arrays' = heap.heap
             /\ probe' = [NoProbe EXCEPT
                            !.n_splu = res.n_splu,
                            !.twin = [packet |-> res.packet,
                                      rhs_eq |-> res.self.rhs_eq]]
             /\ built' = [self |-> self, packet |-> res.packet]
             /\ held' = NoArray
      ELSE /\ args' = p
           /\ outcome' = res.raised
           /\ calc' = NoCalc
           /\ arrays' = <<>>
           /\ probe' = NoProbe
           /\ built' = NoCalc
           /\ held' = NoArray

-----------------------------------------------------------------------------
(* SpecConfig: construction alone, over configurations good and bad.       *)

Args(sp, sb, du, en, ph, dx, dt) ==
    [size_packet |-> sp, size_barrier |-> sb, duration_time |-> du,
     energy_packet |-> en, potential_barrier_height |-> ph, dx |-> dx, dt |-> dt]

\* SimulationConfig.DEFAULT_VALUES
DEFAULT_VALUES ==
    [size_packet |-> 1, size_barrier |-> 1, duration_time |-> 30,
     energy_packet |-> 1, potential_barrier_height |-> 1, dx |-> 10, dt |-> 10,
     export_ith_image |-> 20, video_duration |-> 10]

\* Configurations tried: parameters positive, zero and negative; spatial
\* steps that give 4, 3, 2, 1 and 0 grid points for a 1 nm packet; time steps
\* that give 3000, 50 and 0 time points for 30 fs.  Negative energies make
\* k = nan and every amplitude nan, which the field cannot carry: they are
\* left out.
ConfigArgs ==
    { Args(sp, sb, du, en, ph, dx, dt) :
        sp \in {-1, 0, DEFAULT_VALUES.size_packet},
        sb \in {0, DEFAULT_VALUES.size_barrier},
        du \in {-1, 0, DEFAULT_VALUES.duration_time},
        en \in {0, DEFAULT_VALUES.energy_packet},
        ph \in {0, DEFAULT_VALUES.potential_barrier_height},
        dx \in {-14000, 0, 10500, 14000, 21000, 42000, 50000},
        dt \in {-10000, 0, DEFAULT_VALUES.dt, 600, 40000} }

\* A caller constructs an instance ...
ConfigConstruct ==
    /\ outcome = "none"
    /\ \E p \in ConfigArgs : \E g \in GaussSamples(p) : Construct(p, g)
    /\ UNCHANGED <<worker, frames, signals, gui>>

\* ... and drops it (or the exception) again.
ConfigDiscard ==
    /\ outcome # "none"
    /\ args' = <<>> /\ outcome' = "none" /\ calc' = NoCalc /\ arrays' = <<>>
    /\ probe' = NoProbe /\ built' = NoCalc /\ held' = NoArray
    /\ UNCHANGED <<worker, frames, signals, gui>>

SpecConfig == Init /\ [][ConfigConstruct \/ ConfigDiscard]_vars

-----------------------------------------------------------------------------
(* SpecIntegrator: one instance used through its public surface by a       *)
(* caller that constructs it, advances it, reads its state and writes to   *)
(* the array it was given.                                                 *)

\* Valid configurations with 3, 4 and 5 grid points and with 1 and 3 time
\* points, the barrier covering a grid point or none.
IntegratorArgs ==
    { Args(1, sb, 30, 1, 1, dx, dt) :
        sb \in {1, 3}, dx \in {8400, 10500, 14000}, dt \in {10000} }

IntConstruct ==
    /\ outcome = "none"
    /\ \E p \in IntegratorArgs : \E g \in GaussSamples(p) : Construct(p, g)
    /\ UNCHANGED <<worker, frames, signals, gui>>

\* The twin's step: calculate_timestep on the twin's private heap.
TwinStep(self, twin) ==
    LET res == calculate_timestep([self EXCEPT !.packet = 1, !.rhs_eq = twin.rhs_eq],
                                  <<twin.packet>>)
    IN  IF res.raised # "none" THEN twin
        ELSE [packet |-> res.heap[1], rhs_eq |-> res.self.rhs_eq]

\* The caller calls calc.calculate_timestep(), as often as it likes.
AdvanceStep ==
    /\ outcome = "ok"
    /\ probe.n_solve < MaxCalls
    /\ \E res \in {calculate_timestep(calc, arrays)} :
         IF res.raised = "none"
         THEN /\ calc' = res.self
              /\ arrays' = res.heap
              /\ probe' = [probe EXCEPT !.n_splu = @ + res.n_splu,
                                        !.n_solve = @ + res.n_solve,
                                        !.n_calls = @ + 1,
                                        !.raised = "none",
                                        !.twin = TwinStep(calc, @)]
         ELSE /\ probe' = [probe EXCEPT !.raised = res.raised,
                                        !.n_calls = @ + 1]
              /\ UNCHANGED <<calc, arrays>>
    /\ UNCHANGED <<args, outcome, built, held, worker, frames, signals, gui>>

\* The caller calls calc.get_packet() and keeps the array in its one
\* variable; the array it kept before is garbage.
ReadState ==
    /\ outcome = "ok"
    /\ \E res \in {get_packet(calc, arrays)} :
         /\ arrays' = [i \in {calc.packet, res.ref} |-> res.heap[i]]
         /\ held' = [ref |-> res.ref, returned |-> res.heap[res.ref],
                     at |-> probe.n_solve, written |-> {}]
    /\ UNCHANGED <<args, outcome, calc, probe, built, worker, frames, signals, gui>>

\* The caller writes to an entry of the array it was given, once.
CallerWrite ==
    /\ held # NoArray
    /\ held.written = {}
    /\ \E j \in 1 .. Len(arrays[held.ref]) :
         /\ arrays' = [arrays EXCEPT ![held.ref][j] = Add(@, 1)]
         /\ held' = [held EXCEPT !.written = {j}]
    /\ UNCHANGED <<args, outcome, calc, probe, built, worker, frames, signals, gui>>

IntNext ==
    \/ IntConstruct
    \/ AdvanceStep
    \/ ReadState
    \/ CallerWrite

SpecIntegrator == Init /\ [][IntNext]_vars

\* No configuration of the model makes the field's elimination meet a zero
\* pivot: as in the program, splu never reports a singular A.
NeverSingular == outcome # "RuntimeError"

-----------------------------------------------------------------------------
(* Python float arithmetic of _emit_progress, on binary digits (most       *)
(* significant first).                                                     *)

\* Significant bits of a binary64.
MantissaBits == 53

\* Digits handled at a time by the multiplication.
LimbBits == 16

RECURSIVE Pow2(_)
Pow2(k) == IF k = 0 THEN 1 ELSE 2 * Pow2(k - 1)

\* 2^k modulo b, by repeated squaring.
RECURSIVE Pow2Mod(_, _)
Pow2Mod(k, b) ==
    IF k = 0 THEN 1 % b
    ELSE LET h == Pow2Mod(k \div 2, b)
         IN  (h * h * (IF k % 2 = 1 THEN 2 ELSE 1)) % b

RECURSIVE BitLen(_)
BitLen(n) == IF n = 0 THEN 0 ELSE 1 + BitLen(n \div 2)

\* The w low digits of n.
NatToBits(n, w) == [j \in 1 .. w |-> (n \div Pow2(w - j)) % 2]

RECURSIVE BitsToNat(_)
BitsToNat(bits) ==
    IF bits = <<>> THEN 0
    ELSE 2 * BitsToNat(SubSeq(bits, 1, Len(bits) - 1)) + bits[Len(bits)]

\* The digits of bits * c + carry, a limb at a time (bits starts with 1).
RECURSIVE MulBits(_, _, _)
MulBits(bits, c, carry) ==
    IF Len(bits) <= LimbBits
    THEN LET v == BitsToNat(bits) * c + carry IN NatToBits(v, BitLen(v))
    ELSE LET hi == SubSeq(bits, 1, Len(bits) - LimbBits)
             lo == SubSeq(bits, Len(bits) - LimbBits + 1, Len(bits))
             v == BitsToNat(lo) * c + carry
         IN  MulBits(hi, c, v \div Pow2(LimbBits)) \o NatToBits(v % Pow2(LimbBits), LimbBits)

\* Round-to-nearest-even of bits to MantissaBits digits: the mantissa and the
\* number of low digits dropped.
RoundBits(bits) ==
    LET top == SubSeq(bits, 1, MantissaBits)
        low == SubSeq(bits, MantissaBits + 1, Len(bits))
        up == /\ low # <<>>
              /\ low[1] = 1
              /\ \/ \E j \in 2 .. Len(low) : low[j] = 1
                 \/ top[MantissaBits] = 1
        m == IF up THEN MulBits(top, 1, 1) ELSE top
    IN  IF Len(m) > MantissaBits
        THEN [mant |-> SubSeq(m, 1, MantissaBits), dropped |-> Len(low) + 1]
        ELSE [mant |-> m, dropped |-> Len(low)]

\* n digits of the binary expansion of r / b (0 <= r < b), and the remainder
\* r * 2^n mod b.
DivBits(r, b, n) ==
    [bits |-> [j \in 1 .. n |-> (2 * ((r * Pow2Mod(j - 1, b)) % b)) \div b],
     rem |-> (r * Pow2Mod(n, b)) % b]

\* a * 2^s for the least s with a * 2^s >= b.
RECURSIVE Normalize(_, _, _)
Normalize(a, b, s) ==
    IF a >= b THEN [a |-> a, s |-> s] ELSE Normalize(2 * a, b, s + 1)

\* a / b for ints 0 < a <= b: the binary64 nearest the quotient, as
\* mant * 2^exp.
TrueDiv(a, b) ==
    LET nz == Normalize(a, b, 0)
        q == DivBits(nz.a - b, b, MantissaBits)
        r == RoundBits(<<1>> \o q.bits \o <<IF q.rem = 0 THEN 0 ELSE 1>>)
    IN  [mant |-> r.mant, exp |-> r.dropped - (MantissaBits + 1) - nz.s]

\* f * c for a float f and a small int c: the binary64 nearest the product.
FloatMul(f, c) ==
    LET r == RoundBits(MulBits(f.mant, c, 0))
    IN  [mant |-> r.mant, exp |-> f.exp + r.dropped]

\* int(f) for a float 0 < f < 2^MantissaBits: truncation.
FloatToInt(f) ==
    IF MantissaBits + f.exp <= 0 THEN 0
    ELSE BitsToNat(SubSeq(f.mant, 1, MantissaBits + f.exp))

\* _emit_progress(i, t_steps): the value emitted, int(i / t_steps * 100).
_emit_progress(i, t_steps) == FloatToInt(FloatMul(TrueDiv(i, t_steps), 100))

-----------------------------------------------------------------------------
(* Spec: the application.  The GUI thread handles clicks of the start      *)
(* button (toggle_simulation); the SimulationWorker thread runs the loop.  *)

\* Values of the entry fields read by get_parameter_values: a valid
\* configuration with 3 grid points and 50, 3 and 0 time points, one with a
\* time step of 0 and one with a barrier height of 0; export_ith_image 0, 1
\* and the default 20.
AppArgs ==
    { Args(1, 3, 30, 1, 1, 14000, dt) : dt \in {0, 600, 10000, 40000} }
        \cup { Args(1, 3, 30, 1, 0, 14000, 10000) }
ExportValues == {0, 1, DEFAULT_VALUES.export_ith_image}

\* The wave packets _gauss yields in the application: the profiles that
\* vanish at the two ends of the grid.
AppGauss(p) == { g \in GaussSamples(p) : g[1] = 0 /\ g[Len(g)] = 0 }

\* The thread of worker w exists and run() has not ended.
Alive(w) == w # NoWorker /\ w.pc \notin {"done", "crashed"}

\* Variant of isRunning: the answer of a thread that has not been started.
isRunning_never(w) == w # w

\* QThread.isRunning()
isRunning(w) == Alive(w)

\* The threads no longer referenced by simulation_worker once worker w is
\* assigned to it: a thread still alive when it is replaced runs on.
Orphans(w) == IF Alive(w) THEN Append(gui.orphans, w) ELSE gui.orphans

\* Visualization.__init__(calc): the exception it raises, if any.
Visualization_init(self) ==
    IF self.potential_barrier_height = 0
    THEN Raise("ZeroDivisionError")      \* 1 / calc.potential_barrier_height
    ELSE [raised |-> "none"]

\* plot_wave_packet(packet, time_step_index): the frame written.  after is
\* the number of solves done when the snapshot was taken.
plot_wave_packet(packet, time_step_index) ==
    [index |-> time_step_index, packet |-> packet, after |-> probe.n_solve]

\* toggle_simulation, else branch: start_simulation() with the values p of
\* the entry fields and k = export_ith_image.  An exception leaves the slot
\* with simulation_worker as it was.
toggle_simulation_start ==
    /\ gui.pc = "idle"
    /\ ~isRunning(worker)
    /\ gui.starts < MaxStarts
    /\ \E p \in AppArgs : \E k \in ExportValues : \E g \in AppGauss(p) :
       \E res \in {NumericalCalculation_init(p, g)} :
         IF res.raised # "none"
         THEN /\ gui' = [gui EXCEPT !.raised = res.raised, !.starts = @ + 1]
              /\ UNCHANGED <<args, outcome, calc, arrays, probe, built, held, worker,
                             frames, signals>>
         ELSE IF Visualization_init(res.self).raised # "none"
         THEN /\ gui' = [gui EXCEPT !.raised = Visualization_init(res.self).raised,
                                    !.starts = @ + 1, !.instances = @ + 1]
              /\ UNCHANGED <<args, outcome, calc, arrays, probe, built, held, worker,
                             frames, signals>>
         ELSE /\ Construct(p, g)
              /\ worker' = [running |-> TRUE, export_ith_image |-> k,
                            pc |-> "begin", i |-> 0, t_steps |-> 0,
                            calc |-> gui.instances + 1]
              /\ frames' = <<>>
              /\ signals' = NoSignals
              /\ gui' = [gui EXCEPT !.raised = "none", !.starts = @ + 1,
                                    !.instances = @ + 1,
                                    !.orphans = Orphans(worker),
                                    !.stopped = NoStop]

\* toggle_simulation, if branch: simulation_worker.stop() sets running to
\* False and waits for the thread.
toggle_simulation_stop ==
    /\ gui.pc = "idle"
    /\ isRunning(worker)
    /\ worker' = [worker EXCEPT !.running = FALSE]
    /\ gui' = [gui EXCEPT !.pc = "wait",
                          !.stopped = [calls |-> probe.n_calls,
                                       in_flight |-> worker.pc = "advance"]]
    /\ UNCHANGED <<args, outcome, calc, arrays, probe, built, held, frames, signals>>

\* wait() returns once the thread has ended; the slot returns.
toggle_simulation_return ==
    /\ gui.pc = "wait"
    /\ ~Alive(worker)
    /\ gui' = [gui EXCEPT !.pc = "idle"]
    /\ UNCHANGED <<args, outcome, calc, arrays, probe, built, held, worker, frames,
                   signals>>

\* run(), lines 39-40: the frame of step 0, t_steps.
run_begin ==
    /\ worker # NoWorker /\ worker.pc = "begin"
    /\ frames' = Append(frames, plot_wave_packet(CurrentState, 0))
    /\ worker' = [worker EXCEPT !.t_steps = calc.division_time, !.i = 1,
                                !.pc = "loop"]
    /\ UNCHANGED <<args, outcome, calc, arrays, probe, built, held, signals, gui>>

\* Variant of run_loop: the loop without the test of running.
run_loop_deaf ==
    /\ worker # NoWorker /\ worker.pc = "loop"
    /\ worker' = [worker EXCEPT
                     !.pc = IF worker.i > worker.t_steps THEN "end" ELSE "advance"]
    /\ UNCHANGED <<args, outcome, calc, arrays, probe, built, held, frames, signals,
                   gui>>

\* run(), lines 42-44: the next i of range(1, t_steps + 1), and the test of
\* running.
run_loop ==
    /\ worker # NoWorker /\ worker.pc = "loop"
    /\ worker' = [worker EXCEPT
                     !.pc = IF worker.i > worker.t_steps THEN "end"
                            ELSE IF ~worker.running THEN "end"
                            ELSE "advance"]
    /\ UNCHANGED <<args, outcome, calc, arrays, probe, built, held, frames, signals,
                   gui>>

\* run(), line 46: self.calc.calculate_timestep()
run_advance ==
    /\ worker # NoWorker /\ worker.pc = "advance"
    /\ \E res \in {calculate_timestep(calc, arrays)} :
         IF res.raised = "none"
         THEN /\ calc' = res.self
              /\ arrays' = res.heap
              /\ probe' = [probe EXCEPT !.n_splu = @ + res.n_splu,
                                        !.n_solve = @ + res.n_solve,
                                        !.n_calls = @ + 1,
                                        !.raised = "none",
                                        !.twin = TwinStep(calc, @)]
              /\ worker' = [worker EXCEPT !.pc = "plot"]
         ELSE /\ probe' = [probe EXCEPT !.raised = res.raised,
                                        !.n_calls = @ + 1]
              /\ worker' = [worker EXCEPT !.pc = "crashed"]
              /\ UNCHANGED <<calc, arrays>>
    /\ UNCHANGED <<args, outcome, built, held, frames, signals, gui>>

\* run(), lines 49-50: every export_ith_image-th frame.
run_plot ==
    /\ worker # NoWorker /\ worker.pc = "plot"
    /\ IF worker.export_ith_image = 0
       THEN /\ worker' = [worker EXCEPT !.pc = "crashed"]   \* i % 0
            /\ UNCHANGED frames
       ELSE /\ worker' = [worker EXCEPT !.pc = "progress"]
            /\ frames' = IF worker.i % worker.export_ith_image = 0
                         THEN Append(frames, plot_wave_packet(CurrentState, worker.i))
                         ELSE frames
    /\ UNCHANGED <<args, outcome, calc, arrays, probe, built, held, signals, gui>>

\* run(), line 52: self._emit_progress(i, t_steps)
run_progress ==
    /\ worker # NoWorker /\ worker.pc = "progress"
    /\ signals' = [signals EXCEPT
                      !.progress = Append(@, _emit_progress(worker.i, worker.t_steps))]
    /\ worker' = [worker EXCEPT !.i = @ + 1, !.pc = "loop"]
    /\ UNCHANGED <<args, outcome, calc, arrays, probe, built, held, frames, gui>>

\* run(), lines 54-58: finished and progress 100, or interrupted.
run_end ==
    /\ worker # NoWorker /\ worker.pc = "end"
    /\ signals' = IF worker.running
                  THEN [signals EXCEPT !.finished = @ + 1,
                                       !.progress = Append(@, 100)]
                  ELSE [signals EXCEPT !.interrupted = @ + 1]
    /\ worker' = [worker EXCEPT !.pc = "done"]
    /\ UNCHANGED <<args, outcome, calc, arrays, probe, built, held, frames, gui>>

Next ==
    \/ toggle_simulation_start
    \/ toggle_simulation_stop
    \/ toggle_simulation_return
    \/ run_begin
    \/ run_loop
    \/ run_advance
    \/ run_plot
    \/ run_progress
    \/ run_end

Spec == Init /\ [][Next]_vars

\* run(): the steps of the worker thread other than the report of progress.
run_but_progress == run_begin \/ run_loop \/ run_advance \/ run_plot \/ run_end

\* run_progress can be taken.
run_progress_enabled == worker # NoWorker /\ worker.pc = "progress"

\* The application with a worker thread that is scheduled as long as it can
\* take a step: weak fairness of the steps of run(), the one of run_progress
\* with its enabling condition written out.
SpecLive ==
    /\ Spec
    /\ WF_vars(run_but_progress)
    /\ ([]<>(~run_progress_enabled) \/ []<><<run_progress>>_vars)

-----------------------------------------------------------------------------
(* Claims about the integrator, checked under SpecIntegrator.              *)

\* C1  Factorization reuse: an instance has had exactly one factorization of
\* A after construction and after any number of calculate_timestep calls.
C1_FactorizationReuse == outcome = "ok" => probe.n_splu = 1

C1_Witness == outcome = "ok" /\ probe.n_solve >= 3 /\ probe.n_splu = 1

\* C2  Frame of the step: after any sequence of calculate_timestep and
\* get_packet calls every field of the instance other than the packet's
\* contents and rhs_eq has the value construction gave it.
C2_Frame ==
    outcome = "ok" =>
        /\ DOMAIN calc = DOMAIN built.self
        /\ \A f \in DOMAIN calc \ {"rhs_eq"} : calc[f] = built.self[f]

C2_Witness ==
    /\ outcome = "ok" /\ probe.n_solve >= 2 /\ held # NoArray
    /\ arrays[calc.packet] # built.packet
    /\ calc.rhs_eq # built.self.rhs_eq
    /\ \E j \in DOMAIN calc.V : calc.V[j] # 0

\* C3  Boundary pinning: the first and the last entry of the vector
\* get_packet returns are those construction left there.
C3_BoundaryPinning ==
    outcome = "ok" =>
        /\ CurrentState[1] = built.packet[1]
        /\ CurrentState[Len(CurrentState)] = built.packet[Len(built.packet)]

C3_Witness ==
    /\ outcome = "ok" /\ probe.n_solve >= 2
    /\ built.packet[1] # 0 /\ built.packet[Len(built.packet)] # 0
    /\ Interior(arrays[calc.packet]) # Interior(built.packet)

\* C4  get_packet returns an independent copy: (a) whatever a caller writes
\* to the returned array, the instance's packet and rhs_eq are those of a
\* twin that gave no array away; (b) the entries of a returned array that
\* the caller did not write stay as returned, whatever steps follow.
C4_IndependentCopy ==
    outcome = "ok" =>
        /\ arrays[calc.packet] = probe.twin.packet
        /\ calc.rhs_eq = probe.twin.rhs_eq
        /\ held # NoArray =>
              /\ held.ref # calc.packet
              /\ \A j \in DOMAIN held.returned \ held.written :
                    arrays[held.ref][j] = held.returned[j]

C4_Witness ==
    /\ outcome = "ok" /\ held # NoArray
    /\ held.written # {}
    /\ held.at < probe.n_solve
    /\ \E j \in DOMAIN held.returned \ held.written :
          arrays[calc.packet][j] # held.returned[j]

\* C7  Stepping never fails and is not limited: every calculate_timestep call
\* on a constructed instance returns without an exception and advances by
\* one step (the new interior x solves A x = B (old interior) + b, the
\* boundary entries stay), also after division_time calls.
C7_StepNeverFails ==
    [][probe'.n_calls # probe.n_calls =>
         /\ probe'.raised = "none"
         /\ probe'.n_solve = probe.n_solve + 1
         /\ MatVec(calc.A, Interior(arrays'[calc.packet]))
                = RhsOf(calc.B, calc.b, arrays[calc.packet])
         /\ Len(arrays'[calc.packet]) = calc.division_x]_vars

C7_Witness ==
    /\ outcome = "ok" /\ probe.raised = "none"
    /\ probe.n_calls > calc.division_time
    /\ probe.n_solve = probe.n_calls

\* C9  Right-hand-side cache: after construction and after every step
\* rhs_eq is B applied to the interior of the current packet, plus b.
C9_RhsCache ==
    outcome = "ok" => calc.rhs_eq = RhsOf(calc.B, calc.b, arrays[calc.packet])

C9_Witness ==
    /\ outcome = "ok" /\ probe.n_solve >= 2
    /\ calc.rhs_eq # built.self.rhs_eq
    /\ \E j \in DOMAIN calc.rhs_eq : calc.rhs_eq[j] # 0

-----------------------------------------------------------------------------
(* Claims about construction, checked under SpecConfig.                    *)

\* The code raises no exception named InvalidConfiguration.  The claims are
\* read with any exception that escapes the constructor standing for it.
Rejected == outcome \notin {"none", "ok"} /\ calc = NoCalc

AllPositive(p) == \A f \in DOMAIN p : p[f] > 0

\* N = floor((x_max - x_min) / dx) and T = floor(duration / dt) of a
\* configuration with positive parameters.
GridPoints(p) == (7 * 6 * p.size_packet * NM) \div (p.dx * PM)
TimePoints(p) == (p.duration_time * FS) \div (p.dt * AS)

\* C5  A degenerate grid is rejected: positive parameters that give N < 3 or
\* T < 1 make the constructor raise, and no instance exists.
C5_DegenerateRejected ==
    (/\ outcome # "none"
     /\ AllPositive(args)
     /\ (GridPoints(args) < 3 \/ TimePoints(args) < 1)) => Rejected

\* C6  Non-positive parameters are rejected: when one of the seven parameters
\* is zero or negative the constructor raises, and no instance exists.
C6_NonPositiveRejected ==
    (outcome # "none" /\ ~AllPositive(args)) => Rejected

\* C8 as stated: with the default duration_time and dt the instance has
\* 3,000,000 time points.
C8_DefaultStepCount_Stated ==
    (/\ outcome = "ok"
     /\ args.duration_time = DEFAULT_VALUES.duration_time
     /\ args.dt = DEFAULT_VALUES.dt) => calc.division_time = 3000000

\* C8  amended: with the default duration_time = 30 fs and dt = 10 as the
\* instance has division_time = 3000 time points, and t has that length.
C8_DefaultStepCount ==
    (/\ outcome = "ok"
     /\ args.duration_time = DEFAULT_VALUES.duration_time
     /\ args.dt = DEFAULT_VALUES.dt) =>
        /\ calc.division_time = 3000
        /\ Len(calc.t) = 3000
        /\ calc.division_time = TimePoints(args)

C8_Witness ==
    /\ outcome = "ok"
    /\ args.duration_time = 30 /\ args.dt = 10
    /\ AllPositive(args)
    /\ calc.time_duration = 30000 /\ calc.dt = 10

-----------------------------------------------------------------------------
(* Claims about the application (Spec).                                    *)

\* floor(100 * i / T)
FloorPercent(i, t_steps) == (100 * i) \div t_steps

\* The progress values reported from inside the loop (the 100 that follows
\* finished is not one of them).
StepReports ==
    IF signals.finished > 0
    THEN SubSeq(signals.progress, 1, Len(signals.progress) - 1)
    ELSE signals.progress

\* The steps of a run of t_steps steps that are rendered.
RenderedSteps(t_steps, k) == {0} \cup { i \in 1 .. t_steps : i % k = 0 }

\* The orchestration loop of a run that has not been stopped, with
\* export_ith_image >= 1, reporting report(i, T) after step i.
Orchestration(report(_, _)) ==
    (/\ worker # NoWorker
     /\ worker.running
     /\ worker.export_ith_image >= 1
     /\ worker.pc # "begin")
    => LET T == calc.division_time
           k == worker.export_ith_image
       IN  /\ worker.pc # "crashed"
           /\ worker.t_steps = T
           \* calls in order i = 1 .. T, exactly T of them
           /\ probe.n_calls = probe.n_solve
           /\ probe.n_calls = IF worker.pc \in {"loop", "advance"}
                              THEN worker.i - 1 ELSE worker.i
                                   - (IF worker.pc \in {"end", "done"} THEN 1 ELSE 0)
           /\ probe.n_calls <= T
           /\ worker.pc \in {"end", "done"} => probe.n_calls = T
           \* snapshots at step 0 and at the steps i with i mod k = 0
           /\ \A f \in 1 .. Len(frames) :
                /\ frames[f].index \in RenderedSteps(T, k)
                /\ frames[f].after = frames[f].index
                /\ f > 1 => frames[f - 1].index < frames[f].index
           /\ { frames[f].index : f \in 1 .. Len(frames) }
                = { i \in RenderedSteps(T, k) :
                      i < probe.n_calls \/ (i = probe.n_calls /\ worker.pc # "plot") }
           \* progress after step i
           /\ Len(StepReports) = IF worker.pc \in {"plot", "progress"}
                                 THEN probe.n_calls - 1 ELSE probe.n_calls
           /\ \A i \in 1 .. Len(StepReports) : StepReports[i] = report(i, T)
           /\ \A i \in 1 .. Len(signals.progress) : signals.progress[i] \in 0 .. 100
           /\ \A i \in 1 .. Len(signals.progress) - 1 :
                signals.progress[i] <= signals.progress[i + 1]
           /\ worker.pc = "done" =>
                /\ signals.finished = 1 /\ signals.interrupted = 0
                /\ signals.progress[Len(signals.progress)] = 100

\* The loop as the code runs it: the report after step i is
\* int(i / T * 100) in float arithmetic.
OrchestrationAsCoded == Orchestration(_emit_progress)

\* C10: a SimulationWorker run that is never stopped calls calculate_timestep
\* exactly T = division_time times, in order i = 1..T; it renders a snapshot
\* of get_packet at step 0 and at exactly the steps i with
\* i mod export_ith_image = 0, each taken after the i-th advance; and after
\* step i it reports progress floor(100*i/T), so that reported progress is
\* non-decreasing, stays within 0..100 and ends at 100.
C10_OrchestrationLoop == Orchestration(FloorPercent)

\* The threads that run now: the one of simulation_worker, if alive, and the
\* ones replaced while alive.
RunningThreads == gui.orphans \o (IF Alive(worker) THEN <<worker>> ELSE <<>>)

\* The calculate_timestep calls worker w has made so far.
WorkerCalls(w) ==
    IF w.pc = "begin" THEN 0
    ELSE IF w.pc \in {"loop", "advance", "end", "done"} THEN w.i - 1
    ELSE w.i

\* A calculate_timestep call of worker w is in flight.
InFlight(w) == Alive(w) /\ w.pc = "advance"

\* C11: for every sequence of Start/Stop clicks and worker completions, at
\* most one SimulationWorker thread runs at any time, each
\* NumericalCalculation instance is advanced by one worker thread only (all
\* the calls made on it are that worker's), and no two calculate_timestep
\* calls on the same instance overlap.
C11_SequentialStepping ==
    /\ Len(RunningThreads) <= 1
    /\ \A a, b \in 1 .. Len(RunningThreads) :
         a # b => RunningThreads[a].calc # RunningThreads[b].calc
    /\ worker # NoWorker =>
         /\ worker.calc \in 1 .. gui.instances
         /\ probe.n_calls = WorkerCalls(worker)
    /\ \A a, b \in 1 .. Len(RunningThreads) :
         (a # b /\ InFlight(RunningThreads[a]) /\ InFlight(RunningThreads[b]))
            => RunningThreads[a].calc # RunningThreads[b].calc

\* A second worker has a call in flight on its instance, after the first
\* worker was stopped or ran to its end.
C11_Witness ==
    /\ worker # NoWorker
    /\ worker.calc >= 2
    /\ InFlight(worker)
    /\ probe.n_calls >= 1

\* stop() has been called on the current worker.
Stopped == worker # NoWorker /\ ~worker.running

\* The calls the stopped worker may still make: the one in flight when
\* running was set to False, if any.
CallsAllowed == gui.stopped.calls + (IF gui.stopped.in_flight THEN 1 ELSE 0)

\* C12: once stop() has set running to False, the worker issues at most the
\* one calculate_timestep call already in flight and then leaves the loop;
\* stop() returns only after the worker thread has ended, so that no
\* calculate_timestep call on that instance happens after stop() returns; and
\* the worker eventually terminates.
C12_Cancellation ==
    /\ [](Stopped => /\ gui.stopped # NoStop
                      /\ probe.n_calls <= CallsAllowed
                      /\ worker.pc = "advance" => gui.stopped.in_flight)
    /\ []((Stopped /\ gui.pc = "idle") => ~Alive(worker))
    /\ [][(Stopped /\ gui.pc = "idle" /\ gui'.stopped # NoStop)
            => probe'.n_calls = probe.n_calls]_vars
    /\ (Stopped ~> ~Alive(worker))

\* stop() came with a call in flight and has returned: the worker made that
\* one call and ended before the last step.
C12_Witness ==
    /\ Stopped
    /\ gui.pc = "idle"
    /\ gui.stopped.in_flight
    /\ probe.n_calls = gui.stopped.calls + 1
    /\ probe.n_calls < worker.t_steps
    /\ worker.pc = "done"

\* run() of the current worker has returned.
RunEnded == worker # NoWorker /\ worker.pc = "done"

\* The completion signals as the code emits them: exactly one of the two,
\* finished only after all T calls, interrupted exactly when stop() came
\* before the last test of running.
CompletionAsCoded ==
    RunEnded =>
        /\ signals.finished + signals.interrupted = 1
        /\ signals.finished = 1 => probe.n_calls = worker.t_steps
        /\ signals.interrupted = 1 <=> ~worker.running

\* C13: every SimulationWorker run that ends emits exactly one of the
\* signals finished and interrupted, under every interleaving of stop() with
\* the worker loop; finished is emitted if and only if all T
\* calculate_timestep calls were performed, and interrupted is emitted only
\* if fewer than T were performed.  (Stated for the runs of T >= 1 steps:
\* a run of no steps has performed all of them from its start.)
C13_CompletionSignal ==
    (RunEnded /\ worker.t_steps >= 1) =>
        /\ signals.finished + signals.interrupted = 1
        /\ signals.finished = 1 <=> probe.n_calls = worker.t_steps
        /\ signals.interrupted = 1 => probe.n_calls < worker.t_steps

====
